---------------------------- MODULE Spec2Model ----------------------------
(***************************************************************************)
(* NOAA River Report: threshold classification and region roll-up.         *)
(*                                                                         *)
(* The model follows src/app/generate_pdf.py (the combined report) and     *)
(* src/report_generator.py (the standalone report).                        *)
(*                                                                         *)
(* Text cells are Python strings.  They are modelled as sequences of       *)
(* one-character strings so that strip(), split(' - '), `'-' in s`, len()  *)
(* and float() are computed as Python computes them.  A float is the exact *)
(* decimal [num, den] (value num/den, den a power of ten); the alphabet of *)
(* the modelled cells has no letters of "inf", "nan" or of an exponent.    *)
(*                                                                         *)
(* Python list index j is TLA+ sequence index j+1: At(s, j) is s[j].       *)
(***************************************************************************)
EXTENDS Integers, Sequences, FiniteSets, TLC

(***************************************************************************)
(* Python text primitives                                                  *)
(***************************************************************************)
At(s, j) == s[j + 1]

DigitChars == <<"0", "1", "2", "3", "4", "5", "6", "7", "8", "9">>

DigitSet == {"0", "1", "2", "3", "4", "5", "6", "7", "8", "9"}

IsDigit(c) == c \in DigitSet

DigitVal(c) ==
    CASE c = "0" -> 0 [] c = "1" -> 1 [] c = "2" -> 2 [] c = "3" -> 3 [] c = "4" -> 4
      [] c = "5" -> 5 [] c = "6" -> 6 [] c = "7" -> 7 [] c = "8" -> 8 [] c = "9" -> 9

IsSpace(c) == c = " "

RECURSIVE LStrip(_)
LStrip(s) == IF s # <<>> /\ IsSpace(Head(s)) THEN LStrip(Tail(s)) ELSE s

RECURSIVE RStrip(_)
RStrip(s) ==
    IF s # <<>> /\ IsSpace(s[Len(s)]) THEN RStrip(SubSeq(s, 1, Len(s) - 1)) ELSE s

\* str.strip()
Strip(s) == RStrip(LStrip(s))

\* Python truthiness of a string
Truthy(s) == s # <<>>

\* '-' in s
HasDash(s) == \E i \in 1..Len(s) : s[i] = "-"

Sep == <<" ", "-", " ">>

SepAt(s, i) == i + 2 <= Len(s) /\ s[i] = " " /\ s[i + 1] = "-" /\ s[i + 2] = " "

RECURSIVE FindSep(_, _)
\* s.find(' - ', i): the first place at or after i where the separator starts, 0 if none
FindSep(s, i) ==
    IF i + 2 > Len(s) THEN 0
    ELSE IF SepAt(s, i) THEN i
    ELSE FindSep(s, i + 1)

RECURSIVE SplitAt(_, _)
SplitAt(s, i) ==
    IF i = 0 THEN <<s>>
    ELSE <<SubSeq(s, 1, i - 1)>>
           \o SplitAt(SubSeq(s, i + 3, Len(s)), FindSep(SubSeq(s, i + 3, Len(s)), 1))

\* s.split(' - ')
Split(s) == SplitAt(s, FindSep(s, 1))

RECURSIVE Pow10(_)
Pow10(k) == IF k = 0 THEN 1 ELSE 10 * Pow10(k - 1)

RECURSIVE ScanNumber(_, _, _, _, _)
\* the digits and the point of body from place i on: the digits read so far write
\* num, of which frac follow the point (frac = -1: no point yet); n digits were read
ScanNumber(body, i, num, frac, n) ==
    IF i > Len(body)
    THEN IF n >= 1
         THEN [ok |-> TRUE, num |-> num, den |-> Pow10(IF frac < 0 THEN 0 ELSE frac)]
         ELSE [ok |-> FALSE, num |-> 0, den |-> 1]
    ELSE IF IsDigit(body[i])
    THEN ScanNumber(body, i + 1, 10 * num + DigitVal(body[i]),
                    IF frac < 0 THEN frac ELSE frac + 1, n + 1)
    ELSE IF body[i] = "." /\ frac < 0
    THEN ScanNumber(body, i + 1, num, 0, n)
    ELSE [ok |-> FALSE, num |-> 0, den |-> 1]

\* the float a parse failed to give
NoFloat == [ok |-> FALSE, num |-> 0, den |-> 1]

Negated(f) == [ok |-> f.ok, num |-> 0 - f.num, den |-> f.den]

\* float(t) of a stripped string
ParseStripped(t) ==
    IF t = <<>> THEN NoFloat
    ELSE IF t[1] = "-" THEN Negated(ScanNumber(t, 2, 0, -1, 0))
    ELSE IF t[1] = "+" THEN ScanNumber(t, 2, 0, -1, 0)
    ELSE ScanNumber(t, 1, 0, -1, 0)

\* float(s): [ok |-> FALSE] is Python's ValueError
ParseFloat(s) == ParseStripped(Strip(s))

\* a <= b on floats
Leq(a, b) == a.num * b.den <= b.num * a.den

RECURSIVE NatStr(_)
NatStr(n) ==
    IF n < 10 THEN <<DigitChars[n + 1]>>
    ELSE NatStr(n \div 10) \o <<DigitChars[(n % 10) + 1]>>

\* str(x) of a float x with an integral value: "5.0", "-5.0"
FloatStr(n) ==
    (IF n < 0 THEN <<"-">> \o NatStr(0 - n) ELSE NatStr(n)) \o <<".", "0">>

StrNoData == <<"N", "o", " ", "D", "a", "t", "a">>

(***************************************************************************)
(* Phases and the table row                                                *)
(***************************************************************************)
Phases == {"neutral", "green", "yellow", "red"}

\* phase_priority, generate_pdf.py line 196
phase_priority(p) ==
    CASE p = "red" -> 3 [] p = "yellow" -> 2 [] p = "green" -> 1 [] OTHER -> 0

\* the outcome of classifying one row: the phase, the band column that matched
\* (-1: none) and whether the except clause logged a warning
Outcome(p, c, w) == [phase |-> p, col |-> c, warned |-> w]

NoMatch == Outcome("neutral", -1, FALSE)

Raised == Outcome("neutral", -1, TRUE)

\* "float(x) if x.strip() else None": isNone marks None, ok = FALSE a ValueError
NoneVal == [isNone |-> TRUE, ok |-> TRUE, num |-> 0, den |-> 1]

FloatIfStrip(s) ==
    IF Strip(s) # <<>>
    THEN LET f == ParseFloat(s)
         IN  [isNone |-> FALSE, ok |-> f.ok, num |-> f.num, den |-> f.den]
    ELSE NoneVal

\* truthiness of a float-or-None
TruthyVal(v) == ~v.isNone /\ v.num # 0

\* watch.split(' - ') if watch and '-' in watch else [watch, watch]
WatchRange(watch) ==
    IF Truthy(watch) /\ HasDash(watch) THEN Split(watch) ELSE <<watch, watch>>

WatchMin(watch) == FloatIfStrip(At(WatchRange(watch), 0))

WatchMax(watch) ==
    LET watch_range == WatchRange(watch)
    IN  IF Len(watch_range) > 1 /\ Strip(At(watch_range, 1)) # <<>>
        THEN FloatIfStrip(At(watch_range, 1))
        ELSE WatchMin(watch)

(***************************************************************************)
(* First classification pass, generate_pdf.py lines 151-192                *)
(***************************************************************************)
\* the umr branch, lines 156-171
UmrPhase(current, table_row) ==
    LET normal_val == FloatIfStrip(At(table_row, 4))
        action_val == FloatIfStrip(At(table_row, 6))
        watch_min  == WatchMin(At(table_row, 5))
        watch_max  == WatchMax(At(table_row, 5))
    IN  IF ~(normal_val.ok /\ action_val.ok /\ watch_min.ok /\ watch_max.ok)
        THEN Raised
        ELSE IF TruthyVal(action_val) /\ Leq(action_val, current)
        THEN Outcome("red", 6, FALSE)
        ELSE IF /\ TruthyVal(watch_min) /\ TruthyVal(watch_max)
                /\ Leq(watch_min, current) /\ Leq(current, watch_max)
        THEN Outcome("yellow", 5, FALSE)
        ELSE IF TruthyVal(normal_val) /\ Leq(current, normal_val)
        THEN Outcome("green", 4, FALSE)
        ELSE NoMatch

\* the thresholds list, lines 173-179: the colour of the band in column col
BandColor(col) ==
    CASE col = 2 -> "red" [] col = 3 -> "yellow" [] col = 4 -> "green"
      [] col = 5 -> "yellow" [] col = 6 -> "red"

\* the thresholds list, lines 173-179: the lambda of the band in column col
Compare(col, c, t) == IF col = 6 THEN Leq(t, c) ELSE Leq(c, t)

\* the range branch, lines 181-185: "raise", "match" or "next"
RangeStep(thresh, current) ==
    LET parts == Split(thresh)
    IN  IF Len(parts) # 2 THEN "raise"
        ELSE LET low  == ParseFloat(parts[1])
                 high == ParseFloat(parts[2])
             IN  IF ~(low.ok /\ high.ok) THEN "raise"
                 ELSE IF Leq(low, current) /\ Leq(current, high) THEN "match"
                 ELSE "next"

\* the scalar branch, lines 186-190
ScalarStep(col, thresh, current) ==
    LET thresh_val == ParseFloat(thresh)
    IN  IF ~thresh_val.ok THEN "raise"
        ELSE IF Compare(col, current, thresh_val) THEN "match"
        ELSE "next"

\* one iteration of "for thresh, color, compare in thresholds", lines 180-190
BandStep(col, thresh, current) ==
    IF Truthy(thresh) /\ HasDash(thresh) THEN RangeStep(thresh, current)
    ELSE IF Strip(thresh) # <<>> THEN ScalarStep(col, thresh, current)
    ELSE "next"

RECURSIVE FiveBandScanSkip(_, _, _)
\* FiveBandScan with a cell that fails to parse skipped, the scan going on
FiveBandScanSkip(current, table_row, col) ==
    IF col > 6 THEN NoMatch
    ELSE IF BandStep(col, At(table_row, col), current) = "match"
    THEN Outcome(BandColor(col), col, FALSE)
    ELSE FiveBandScanSkip(current, table_row, col + 1)

RECURSIVE FiveBandScan(_, _, _)
\* the thresholds loop from the band in column col on, lines 180-190
FiveBandScan(current, table_row, col) ==
    IF col > 6 THEN NoMatch
    ELSE LET step == BandStep(col, At(table_row, col), current)
         IN  IF step = "raise" THEN Raised
             ELSE IF step = "match" THEN Outcome(BandColor(col), col, FALSE)
             ELSE FiveBandScan(current, table_row, col + 1)

\* ClassifyRow with a Current that is no number read as 0.0
ClassifyRowZero(river, table_row) ==
    LET parsed == ParseFloat(At(table_row, 7))
        current == IF parsed.ok THEN parsed ELSE [ok |-> TRUE, num |-> 0, den |-> 1]
    IN  IF river = "umr" THEN UmrPhase(current, table_row)
        ELSE FiveBandScan(current, table_row, 2)

\* lines 151-192: the phase of one table row
ClassifyRow(river, table_row) ==
    LET current_str == At(table_row, 7)
    IN  IF current_str # StrNoData /\ Strip(current_str) # <<>>
        THEN LET current == ParseFloat(current_str)
             IN  IF ~current.ok THEN Raised
                 ELSE IF river = "umr" THEN UmrPhase(current, table_row)
                 ELSE FiveBandScan(current, table_row, 2)
        ELSE NoMatch

(***************************************************************************)
(* Second classification pass, generate_pdf.py lines 247-296: the band     *)
(* cell of a row that gets a BACKGROUND                                    *)
(***************************************************************************)
\* the umr branch, lines 252-267
UmrHighlight(current, row) ==
    LET normal_val == FloatIfStrip(At(row, 4))
        action_val == FloatIfStrip(At(row, 6))
        watch_min  == WatchMin(At(row, 5))
        watch_max  == WatchMax(At(row, 5))
    IN  IF ~(normal_val.ok /\ action_val.ok /\ watch_min.ok /\ watch_max.ok)
        THEN Raised
        ELSE IF TruthyVal(action_val) /\ Leq(action_val, current)
        THEN Outcome("red", 6, FALSE)
        ELSE IF /\ TruthyVal(watch_min) /\ TruthyVal(watch_max)
                /\ Leq(watch_min, current) /\ Leq(current, watch_max)
        THEN Outcome("yellow", 5, FALSE)
        ELSE IF TruthyVal(normal_val) /\ Leq(current, normal_val)
        THEN Outcome("green", 4, FALSE)
        ELSE NoMatch

\* the thresholds list of the second pass, lines 269-275
HighlightColor(col_idx) ==
    CASE col_idx = 2 -> "red" [] col_idx = 3 -> "yellow" [] col_idx = 4 -> "green"
      [] col_idx = 5 -> "yellow" [] col_idx = 6 -> "red"

RECURSIVE FiveBandHighlight(_, _, _)
\* the thresholds loop of the second pass from column col_idx on, lines 276-294
FiveBandHighlight(current, row, col_idx) ==
    IF col_idx > 6 THEN NoMatch
    ELSE LET thresh == At(row, col_idx)
             step == IF Truthy(thresh) /\ HasDash(thresh)
                     THEN RangeStep(thresh, current)
                     ELSE IF Strip(thresh) # <<>>
                     THEN ScalarStep(col_idx, thresh, current)
                     ELSE "next"
         IN  IF step = "raise" THEN Raised
             ELSE IF step = "match"
             THEN Outcome(HighlightColor(col_idx), col_idx, FALSE)
             ELSE FiveBandHighlight(current, row, col_idx + 1)

\* HighlightOf with the umr rows scanned as five-band rows
HighlightOfFiveBand(river, row) ==
    LET current_str == At(row, 7)
    IN  IF current_str # StrNoData /\ Strip(current_str) # <<>>
        THEN LET current == ParseFloat(current_str)
             IN  IF ~current.ok THEN Raised
                 ELSE FiveBandHighlight(current, row, 2)
        ELSE NoMatch

\* lines 248-296: the highlight of one table row
HighlightOf(river, row) ==
    LET current_str == At(row, 7)
    IN  IF current_str # StrNoData /\ Strip(current_str) # <<>>
        THEN LET current == ParseFloat(current_str)
             IN  IF ~current.ok THEN Raised
                 ELSE IF river = "umr" THEN UmrHighlight(current, row)
                 ELSE FiveBandHighlight(current, row, 2)
        ELSE NoMatch

(***************************************************************************)
(* The rows handed to the report                                           *)
(***************************************************************************)
\* row['Current']: a float, a string, or no such key
CurFloat(n) == [kind |-> "float", val |-> n, s |-> <<>>]

CurStr(s) == [kind |-> "str", val |-> 0, s |-> s]

CurAbsent == [kind |-> "absent", val |-> 0, s |-> <<>>]

CurNone == [kind |-> "None", val |-> 0, s |-> <<>>]

StrNone == <<"N", "o", "n", "e">>

\* str(x) of a float, a string or None
PyStr(cur) ==
    IF cur.kind = "float" THEN FloatStr(cur.val)
    ELSE IF cur.kind = "str" THEN cur.s
    ELSE StrNone

\* str(row.get('Current', 'No Data')), line 138
CurrentStr(cur) == IF cur.kind = "absent" THEN StrNoData ELSE PyStr(cur)

\* region_column, line 117
region_column(river) ==
    CASE river = "ilr" -> "Zone" [] river = "umr" -> "Pool" [] river = "mor" -> "Reach"

\* headers, line 118
Headers(river) ==
    <<region_column(river), "Gauge", "LowAction", "LowWatch", "Normal",
      "HighWatch", "HighAction", "Current">>

\* table_row[0], line 136: a Paragraph for a non-empty mor region, else the text
RegionCell(river, region) ==
    [text |-> region, para |-> (river = "mor" /\ region # "")]

\* lines 135-149: the table row of one input row
TableRow(river, row) ==
    IF river = "umr"
    THEN <<RegionCell(river, row.region), row.Gauge, <<>>, <<>>,
           row.Normal, row.Watch, row.Action, CurrentStr(row.Current)>>
    ELSE <<RegionCell(river, row.region), row.Gauge, row.LowAction, row.LowWatch,
           row.Normal, row.HighWatch, row.HighAction, CurrentStr(row.Current)>>

\* an optional region id: current_region is None before the first row
None == [some |-> FALSE, v |-> ""]

Some(x) == [some |-> TRUE, v |-> x]

\* region_phases.get(region, 'neutral')
PhaseGet(d, region) == IF region \in DOMAIN d THEN d[region] ELSE "neutral"

\* region_phases[region] = phase
PhasePut(d, region, phase) ==
    [k \in DOMAIN d \cup {region} |-> IF k = region THEN phase ELSE d[k]]

\* the colour map of lines 239-244
RegionColor(phase) ==
    CASE phase = "red" -> "red" [] phase = "yellow" -> "yellow"
      [] phase = "green" -> "green" [] OTHER -> "transparent"

\* RollUp without the comparison of line 197: the last row of a region wins
RollUpLast(d, region, phase) == IF region # "" THEN PhasePut(d, region, phase) ELSE d

\* RollUp with the comparison of line 197 lost after the first row of a region
RollUpFirst(d, region, phase) ==
    IF region # "" /\ region \notin DOMAIN d THEN PhasePut(d, region, phase) ELSE d

\* lines 194-198: the roll-up of one row's phase into region_phases
RollUp(d, region, phase) ==
    IF region # ""
    THEN IF phase_priority(phase) > phase_priority(PhaseGet(d, region))
         THEN PhasePut(d, region, phase)
         ELSE d
    ELSE d

\* OpensGroup with None taken for the empty region id
OpensGroupNoNone(region, cur_region) == region # cur_region.v

\* line 129: does this row open a new group
OpensGroup(region, cur_region) == Some(region) # cur_region

\* line 238: the phase that colours the region cell of a group
GroupPhase(d, region) == PhaseGet(d, region)

(***************************************************************************)
(* Inputs                                                                  *)
(***************************************************************************)
Rivers == {"ilr", "umr", "mor"}

\* the longest batch of the combined report
MaxRows == 3

\* the largest reading of a single classified row
MaxReading == 3

RangeStr(a, b) == NatStr(a) \o Sep \o NatStr(b)

Regions == {"", "PoolA", "PoolB"}

\* an input row (a dict of the batch); a key the river does not use is absent
InputRow(region, la, lw, n, hw, ha, w, a, cur) ==
    [region |-> region, Gauge |-> "g", LowAction |-> la, LowWatch |-> lw,
     Normal |-> n, HighWatch |-> hw, HighAction |-> ha, Watch |-> w,
     Action |-> a, Current |-> cur]

\* a gauge of a river with the thresholds of the specification's scenarios
GaugeRow(river, region, cur) ==
    IF river = "umr"
    THEN InputRow(region, <<>>, <<>>, NatStr(50), <<>>, <<>>,
                  RangeStr(60, 90), NatStr(90), cur)
    ELSE InputRow(region, NatStr(30), RangeStr(30, 40), RangeStr(40, 60),
                  RangeStr(60, 75), NatStr(80), <<>>, <<>>, cur)

\* readings that leave such a gauge neutral, green and red (yellow: PoolScenario)
BatchReadings == {CurStr(StrNoData), CurFloat(42), CurFloat(95)}

GaugeRows(river) ==
    {GaugeRow(river, region, cur) : region \in Regions, cur \in BatchReadings}

\* PoolA (green, red, yellow), PoolB, then PoolA again (green)
PoolScenario ==
    <<GaugeRow("umr", "PoolA", CurFloat(42)), GaugeRow("umr", "PoolA", CurFloat(95)),
      GaugeRow("umr", "PoolA", CurFloat(65)), GaugeRow("umr", "PoolB", CurFloat(42)),
      GaugeRow("umr", "PoolA", CurFloat(42))>>

Batches(river) ==
    UNION {[1..n -> GaugeRows(river)] : n \in 1..MaxRows}
      \cup (IF river = "umr" THEN {PoolScenario} ELSE {})

\* the cells of a single classified row
CellStrs ==
    {<<>>, NatStr(0), NatStr(2), <<"-">> \o NatStr(1), RangeStr(1, 2), <<"x">>}

\* the readings of a single classified row
Readings ==
    {CurAbsent, CurStr(StrNoData), CurStr(<<>>), CurStr(<<" ">>), CurStr(<<"x">>)}
      \cup {CurFloat(n) : n \in -2..MaxReading}

SingleRows(river) ==
    IF river = "umr"
    THEN {InputRow("PoolA", <<>>, <<>>, n, <<>>, <<>>, w, a, cur) :
            n \in CellStrs, w \in CellStrs, a \in CellStrs, cur \in Readings}
    ELSE {InputRow("PoolA", la, lw, n, hw, ha, <<>>, <<>>, cur) :
            la \in CellStrs, lw \in CellStrs, n \in CellStrs, hw \in CellStrs,
            ha \in CellStrs, cur \in Readings}

(***************************************************************************)
(* GeneratePDF._generate_combined_pdf on the batch of one river            *)
(***************************************************************************)
VARIABLES
    river,          \* the river of the loop at line 106
    report_data,    \* its batch
    pc,             \* where the report is
    idx,            \* the row of report_data the loop at line 127 is at
    data,           \* the table: headers, then one row per input row
    region_groups,  \* (region, start, end) of each closed group
    current_region,
    start_row,
    region_phases,
    phases,         \* the local phase of each row, as line 151-192 left it
    table_styles,   \* the SPAN and BACKGROUND styles a loop added to the table
    g,              \* the group the loop at line 233 is at
    r,              \* the row the highlight loop is at
    normal,         \* report_generator.py: the local of create_pdf_report
    high_watch,     \* report_generator.py: the local of create_pdf_report
    high_action,    \* report_generator.py: the local of create_pdf_report
    raised          \* report_generator.py: the exception that left create_pdf_report

\* the state of GeneratePDF._generate_combined_pdf alone
pdfOnly == <<river, idx, region_groups, current_region, start_row, region_phases,
             phases, g>>

\* the state of the standalone create_pdf_report alone
saVars == <<normal, high_watch, high_action, raised>>

\* the state of one report being laid out
reportVars == <<river, report_data, pc, idx, data, region_groups, current_region,
                start_row, region_phases, phases, table_styles, g, r, normal,
                high_watch, high_action, raised>>

VARIABLES
    river_data,     \* GeneratePDF._river_data: per river <<>> (None) or <<batch>>
    reports,        \* the combined reports built so far, the batch of each table
    workers,        \* the callers of create_pdf_report and where each one is
    latest          \* history: the batch each river was last submitted with

\* the state of GeneratePDF.create_pdf_report
storeVars == <<river_data, reports, workers, latest>>

VARIABLES
    gens,           \* the threads running generate_reports, the locals of each
    fetched,        \* history: per thread, how often get_water_level got each URL
    csv_dir,        \* the CSV files in reports/csv/
    archive_dir,    \* the CSV files in reports/csv/archive/
    report_lock,    \* the thread holding report_lock, "" when it is free
    now,            \* the clock, in seconds
    stamp           \* the clock the file system stamps a file's ctime with

\* the state of generate_reports and get_water_level
fetchVars == <<gens, fetched>>

\* the state of make_csv: the two directories, the lock and the clocks
csvVars == <<csv_dir, archive_dir, report_lock, now, stamp>>

VARIABLES
    loader,         \* the locals of the standalone generate_report
    main,           \* where main() is: its position and the thread it joins
    threads,        \* the river threads main started, and what each still logs
    log_queue,      \* the records in log_queue, the oldest first
    unfinished,     \* log_queue.unfinished_tasks
    listener        \* the QueueListener's thread and the record it is handling

\* the state of the standalone generate_report
loadVars == <<loader>>

\* the state of main and of the logging behind it
mainVars == <<main, threads, log_queue, unfinished, listener>>

\* the state of the two entry points
runVars == <<loadVars, mainVars>>

\* the state of the application around the reports
appVars == <<storeVars, fetchVars, csvVars, runVars>>

vars == <<reportVars, appVars>>

\* generate_pdf.py lines 15 and 53: {'ilr': None, 'umr': None, 'mor': None}
EmptyStore == [rv \in Rivers |-> <<>>]

\* no caller of create_pdf_report
StoreIdle ==
    /\ river_data = EmptyStore
    /\ reports = <<>>
    /\ workers = <<>>
    /\ latest = EmptyStore

\* no thread runs generate_reports, the directories are empty
FetchIdle ==
    /\ gens = <<>>
    /\ fetched = <<>>
    /\ csv_dir = {}
    /\ archive_dir = {}
    /\ report_lock = ""
    /\ now = 1
    /\ stamp = 1

\* generate_report is not running
LoadIdle == loader = [pc |-> "idle"]

\* main is not running: nothing is logged, the listener waits
MainIdle ==
    /\ main = [pc |-> "idle", k |-> 1]
    /\ threads = <<>>
    /\ log_queue = <<>>
    /\ unfinished = 0
    /\ listener = [pc |-> "dequeue", record |-> ""]

\* neither entry point is running
RunIdle == LoadIdle /\ MainIdle

\* the application around the reports is not running
AppIdle == StoreIdle /\ FetchIdle /\ RunIdle

\* a local that no statement has assigned yet
Unbound == [bound |-> FALSE, num |-> 0, den |-> 1]

Start(rv, batch) ==
    /\ river = rv
    /\ report_data = batch
    /\ pc = "rows"
    /\ idx = 1
    /\ data = <<Headers(rv)>>
    /\ region_groups = <<>>
    /\ current_region = None
    /\ start_row = 1
    /\ region_phases = [k \in {} |-> "neutral"]
    /\ phases = <<>>
    /\ table_styles = <<>>
    /\ g = 1
    /\ r = 1
    /\ normal = Unbound
    /\ high_watch = Unbound
    /\ high_action = Unbound
    /\ raised = ""
    /\ AppIdle

Init == \E rv \in Rivers : \E batch \in Batches(rv) : Start(rv, batch)

InitRow ==
    \E rv \in {"ilr", "umr"} : \E row \in SingleRows(rv) : Start(rv, <<row>>)

\* lines 127-200: one iteration of "for row in report_data"
ProcessRow ==
    /\ pc = "rows"
    /\ idx <= Len(report_data)
    /\ LET row       == report_data[idx]
           region    == row.region
           opens     == OpensGroup(region, current_region)
           table_row == TableRow(river, row)
           phase     == ClassifyRow(river, table_row).phase
       IN  /\ region_groups' =
                 IF opens /\ current_region.some
                 THEN Append(region_groups, <<current_region.v, start_row, Len(data)>>)
                 ELSE region_groups
           /\ current_region' = IF opens THEN Some(region) ELSE current_region
           /\ start_row' = IF opens THEN Len(data) ELSE start_row
           /\ region_phases' = RollUp(region_phases, region, phase)
           /\ phases' = Append(phases, phase)
           /\ data' = Append(data, table_row)
    /\ idx' = idx + 1
    /\ UNCHANGED <<river, report_data, pc, table_styles, g, r>>
    /\ UNCHANGED saVars
    /\ UNCHANGED appVars

\* lines 202-203: the last group is closed
CloseRows ==
    /\ pc = "rows"
    /\ idx > Len(report_data)
    /\ region_groups' =
          IF current_region.some
          THEN Append(region_groups, <<current_region.v, start_row, Len(data)>>)
          ELSE region_groups
    /\ pc' = "groups"
    /\ UNCHANGED <<river, report_data, idx, data, current_region, start_row,
                   region_phases, phases, table_styles, g, r>>
    /\ UNCHANGED saVars
    /\ UNCHANGED appVars

Style(op, c0, r0, c1, r1, color) ==
    [op |-> op, c0 |-> c0, r0 |-> r0, c1 |-> c1, r1 |-> r1, color |-> color]

\* lines 236-237: the region cell of every row of the group but the first is blanked
Blanked(d, start, end) ==
    [i \in 1..Len(d) |->
        IF i - 1 \in (start + 1)..(end - 1)
        THEN [d[i] EXCEPT ![1] = [text |-> "", para |-> FALSE]]
        ELSE d[i]]

\* lines 233-245: one iteration of "for region, start, end in region_groups"
ColourRegion ==
    /\ pc = "groups"
    /\ g <= Len(region_groups)
    /\ LET region == region_groups[g][1]
           start  == region_groups[g][2]
           end    == region_groups[g][3]
           color  == RegionColor(GroupPhase(region_phases, region))
           span   == IF end > start
                     THEN <<Style("SPAN", 0, start, 0, end - 1, "")>>
                     ELSE <<>>
       IN  /\ data' = IF end > start THEN Blanked(data, start, end) ELSE data
           /\ table_styles' =
                 table_styles \o span
                   \o <<Style("BACKGROUND", 0, start, 0, end - 1, color)>>
    /\ g' = g + 1
    /\ UNCHANGED <<river, report_data, pc, idx, region_groups, current_region,
                   start_row, region_phases, phases, r>>
    /\ UNCHANGED saVars
    /\ UNCHANGED appVars

\* line 247: the loop over the groups is over
EndGroups ==
    /\ pc = "groups"
    /\ g > Len(region_groups)
    /\ pc' = "cells"
    /\ UNCHANGED <<river, report_data, idx, data, region_groups, current_region,
                   start_row, region_phases, phases, table_styles, g, r>>
    /\ UNCHANGED saVars
    /\ UNCHANGED appVars

\* lines 247-296: one iteration of "for r, row in enumerate(data[1:], 1)"
HighlightRow ==
    /\ pc = "cells"
    /\ r <= Len(data) - 1
    /\ LET hit == HighlightOf(river, At(data, r))
       IN  table_styles' =
              IF hit.col >= 0
              THEN Append(table_styles,
                          Style("BACKGROUND", hit.col, r, hit.col, r, hit.phase))
              ELSE table_styles
    /\ r' = r + 1
    /\ UNCHANGED <<river, report_data, pc, idx, data, region_groups, current_region,
                   start_row, region_phases, phases, g>>
    /\ UNCHANGED saVars
    /\ UNCHANGED appVars

\* line 298: table.setStyle, the table of this river is built
BuildTable ==
    /\ pc = "cells"
    /\ r > Len(data) - 1
    /\ pc' = "built"
    /\ UNCHANGED <<river, report_data, idx, data, region_groups, current_region,
                   start_row, region_phases, phases, table_styles, g, r>>
    /\ UNCHANGED saVars
    /\ UNCHANGED appVars

Next ==
    \/ ProcessRow
    \/ CloseRows
    \/ ColourRegion
    \/ EndGroups
    \/ HighlightRow
    \/ BuildTable

\* the combined report over batches of up to MaxRows gauges
Spec == Init /\ [][Next]_vars

\* the combined report over one row with every content of its cells
SpecRow == InitRow /\ [][Next]_vars

InitTables == Init \/ InitRow

\* the combined report over the batches of Spec and the rows of SpecRow
SpecTables == InitTables /\ [][Next]_vars

(***************************************************************************)
(* The standalone report, report_generator.py create_pdf_report            *)
(***************************************************************************)
\* [''] * len(headers), the separator row between two reaches
SeparatorRow == <<"", "", <<>>, <<>>, <<>>, <<>>, <<>>, <<>>>>

\* report_generator.py lines 108-113: the table row of one input row
SaTableRow(row) ==
    <<row.region, row.Gauge, row.LowAction, row.LowWatch, row.Normal,
      row.HighWatch, row.HighAction, PyStr(row.Current)>>

RECURSIVE SaRows(_, _, _)
\* report_generator.py lines 103-113: the rows after the headers, a separator
\* before every row whose reach differs from the one before it
SaRows(rows, i, current_reach) ==
    IF i > Len(rows) THEN <<>>
    ELSE LET reach == rows[i].region
             sep == IF Some(reach) # current_reach /\ current_reach.some
                    THEN <<SeparatorRow>>
                    ELSE <<>>
         IN  sep \o <<SaTableRow(rows[i])>> \o SaRows(rows, i + 1, Some(reach))

\* report_generator.py lines 99-116: data, a trailing separator popped
SaData(rows) ==
    LET d == <<Headers("mor")>> \o SaRows(rows, 1, None)
    IN  IF d[Len(d)] = SeparatorRow THEN SubSeq(d, 1, Len(d) - 1) ELSE d

\* the value a cell parses to, None for a blank cell, or the exception raised
Parsed(f) == [exc |-> (IF f.ok THEN "" ELSE "ValueError"), isNone |-> FALSE,
              num |-> f.num, den |-> f.den]

ParsedNone == [exc |-> "", isNone |-> TRUE, num |-> 0, den |-> 1]

ParsedRaise(e) == [exc |-> e, isNone |-> FALSE, num |-> 0, den |-> 1]

\* lines 159-162 and 180-181: float(cell) if cell
ScalarCell(cell) == IF Truthy(cell) THEN Parsed(ParseFloat(cell)) ELSE ParsedNone

\* lines 163-165 and 176-178: float(cell.split(' - ')[1]) if cell
UpperCell(cell) ==
    IF Truthy(cell)
    THEN LET parts == Split(cell)
         IN  IF Len(parts) < 2 THEN ParsedRaise("IndexError")
             ELSE Parsed(ParseFloat(At(parts, 1)))
    ELSE ParsedNone

\* the longest Normal cell read as a scalar, line 170
ScalarLen == 5

\* lines 169-174
NormalCell(cell) ==
    IF Truthy(cell)
    THEN IF Len(cell) <= ScalarLen THEN Parsed(ParseFloat(cell))
         ELSE UpperCell(cell)
    ELSE ParsedNone

\* a local after "if cell: local = value": assigned, or left as it was
Assign(old, p) ==
    IF p.isNone THEN old ELSE [bound |-> TRUE, num |-> p.num, den |-> p.den]

\* the outcome of one row of the highlight loop
SaOutcome(exc, col, color, n, hw, ha) ==
    [exc |-> exc, col |-> col, color |-> color, normal |-> n, high_watch |-> hw,
     high_action |-> ha]

\* lines 184-208: the elif chain, every cell of the row parsed
SaChain(current, low_action, low_watch, n, hw, ha) ==
    IF ~low_action.isNone /\ low_action.num # 0 /\ Leq(current, low_action)
    THEN SaOutcome("", 2, "red", n, hw, ha)
    ELSE IF ~low_watch.isNone /\ low_watch.num # 0 /\ Leq(current, low_watch)
    THEN SaOutcome("", 3, "yellow", n, hw, ha)
    ELSE IF ~n.bound THEN SaOutcome("UnboundLocalError", -1, "", n, hw, ha)
    ELSE IF n.num # 0
    THEN IF Leq(current, n) THEN SaOutcome("", 4, "green", n, hw, ha)
         ELSE SaOutcome("", -1, "", n, hw, ha)
    ELSE IF ~hw.bound THEN SaOutcome("UnboundLocalError", -1, "", n, hw, ha)
    ELSE IF hw.num # 0
    THEN IF Leq(current, hw) THEN SaOutcome("", 5, "yellow", n, hw, ha)
         ELSE SaOutcome("", -1, "", n, hw, ha)
    ELSE IF ~ha.bound THEN SaOutcome("UnboundLocalError", -1, "", n, hw, ha)
    ELSE IF ha.num # 0
    THEN IF Leq(ha, current) THEN SaOutcome("", 6, "red", n, hw, ha)
         ELSE SaOutcome("", -1, "", n, hw, ha)
    ELSE SaOutcome("", -1, "", n, hw, ha)

\* lines 148-211: one row of the highlight loop, the locals n, hw, ha as the
\* rows before it left them
SaHighlight(row, n, hw, ha) ==
    LET current_str == At(row, 7)
    IN  IF row = SeparatorRow THEN SaOutcome("", -1, "", n, hw, ha)
        ELSE IF ~(current_str # StrNoData /\ Strip(current_str) # <<>>)
        THEN SaOutcome("", -1, "", n, hw, ha)
        ELSE LET current == ParseFloat(current_str)
                 la == ScalarCell(At(row, 2))
                 lw == UpperCell(At(row, 3))
                 nc == NormalCell(At(row, 4))
                 hc == UpperCell(At(row, 5))
                 ac == ScalarCell(At(row, 6))
                 n1 == Assign(n, nc)
                 hw1 == Assign(hw, hc)
                 ha1 == Assign(ha, ac)
             IN  IF ~current.ok THEN SaOutcome("ValueError", -1, "", n, hw, ha)
                 ELSE IF la.exc # "" THEN SaOutcome(la.exc, -1, "", n, hw, ha)
                 ELSE IF lw.exc # "" THEN SaOutcome(lw.exc, -1, "", n, hw, ha)
                 ELSE IF nc.exc # "" THEN SaOutcome(nc.exc, -1, "", n, hw, ha)
                 ELSE IF hc.exc # "" THEN SaOutcome(hc.exc, -1, "", n1, hw, ha)
                 ELSE IF ac.exc # "" THEN SaOutcome(ac.exc, -1, "", n1, hw1, ha)
                 ELSE SaChain(current, la, lw, n1, hw1, ha1)

\* the cells of the standalone report's rows, column by column
SaLowAction == {<<>>, NatStr(0), NatStr(10)}

SaLowWatch == {<<>>, RangeStr(10, 20), NatStr(15)}

SaNormal == {<<>>, NatStr(0), NatStr(30), RangeStr(20, 30)}

SaHighWatch == {<<>>, RangeStr(30, 40)}

SaHighAction == {<<>>, NatStr(40)}

SaReadings ==
    {CurStr(StrNoData), CurNone, CurStr(<<"x">>)}
      \cup {CurFloat(n) : n \in {0, 15, 25, 35, 45}}

SaInputRows(reaches) ==
    {InputRow(reach, la, lw, n, hw, ha, <<>>, <<>>, cur) :
        reach \in reaches, la \in SaLowAction, lw \in SaLowWatch, n \in SaNormal,
        hw \in SaHighWatch, ha \in SaHighAction, cur \in SaReadings}

\* rows that leave the locals bound, to go before another row
SaFirstRows ==
    {InputRow("R1", <<>>, <<>>, n, RangeStr(30, 40), NatStr(40), <<>>, <<>>,
              CurFloat(cur)) : n \in {NatStr(0), NatStr(30)}, cur \in {25, 45}}

\* one row, or one row after a row of SaFirstRows
SaBatches ==
    {<<row>> : row \in SaInputRows({"R1"})}
      \cup {<<first, row>> : first \in SaFirstRows, row \in SaInputRows({"R1", "R2"})}

InitStandalone ==
    \E batch \in SaBatches :
        /\ river = "mor"
        /\ report_data = batch
        /\ pc = "sa_start"
        /\ idx = 1
        /\ data = <<>>
        /\ region_groups = <<>>
        /\ current_region = None
        /\ start_row = 1
        /\ region_phases = [k \in {} |-> "neutral"]
        /\ phases = <<>>
        /\ table_styles = <<>>
        /\ g = 1
        /\ r = 1
        /\ normal = Unbound
        /\ high_watch = Unbound
        /\ high_action = Unbound
        /\ raised = ""
        /\ AppIdle

\* report_generator.py lines 98-143: the table is laid out
SaBuildData ==
    /\ pc = "sa_start"
    /\ data' = SaData(report_data)
    /\ pc' = "sa_rows"
    /\ UNCHANGED <<report_data, table_styles, r, pdfOnly, saVars>>
    /\ UNCHANGED appVars

\* report_generator.py lines 146-211: one iteration of the highlight loop
SaHighlightRow ==
    /\ pc = "sa_rows"
    /\ r <= Len(data) - 1
    /\ LET out == SaHighlight(At(data, r), normal, high_watch, high_action)
       IN  /\ normal' = out.normal
           /\ high_watch' = out.high_watch
           /\ high_action' = out.high_action
           /\ table_styles' =
                 IF out.col >= 0
                 THEN Append(table_styles,
                             Style("BACKGROUND", out.col, r, out.col, r, out.color))
                 ELSE table_styles
           /\ IF out.exc \in {"", "ValueError"}
              THEN /\ raised' = raised
                   /\ r' = r + 1
                   /\ pc' = pc
              ELSE /\ raised' = out.exc
                   /\ r' = r
                   /\ pc' = "sa_raised"
    /\ UNCHANGED <<report_data, data, pdfOnly>>
    /\ UNCHANGED appVars

\* report_generator.py lines 214-234: the loop is over, the report is built
SaBuildReport ==
    /\ pc = "sa_rows"
    /\ r > Len(data) - 1
    /\ pc' = "sa_built"
    /\ UNCHANGED <<report_data, data, table_styles, r, pdfOnly, saVars>>
    /\ UNCHANGED appVars

NextStandalone ==
    \/ SaBuildData
    \/ SaHighlightRow
    \/ SaBuildReport

\* the standalone report over one or two rows
SpecStandalone == InitStandalone /\ [][NextStandalone]_vars

\* both reports, each over its own inputs
InitReports == InitRow \/ InitStandalone

NextReports == Next \/ NextStandalone

SpecReports == InitReports /\ [][NextReports]_vars

(***************************************************************************)
(* GeneratePDF.create_pdf_report: the store of the batches of the rivers,  *)
(* generate_pdf.py lines 13-53.  A batch is the list of its rows; a slot   *)
(* of _river_data is <<>> for None and <<batch>> for a stored batch.       *)
(***************************************************************************)
\* the rivers in the order of the loop at line 106
RiverOrder == <<"ilr", "umr", "mor">>

\* the river names a caller may pass: the three rivers and a name that is none
RiverNames == Rivers \cup {"xyz"}

\* the batches a caller may pass: the empty list and two lists of rows
StoreBatches == {<<>>, <<"a">>, <<"b">>}

\* the calls one caller makes in a series
MaxCalls == 7

\* the validation with the river name left unchecked
ValidateDataOnly(batch, rv) == IF batch = <<>> THEN "no_data" ELSE ""

\* lines 38-43: what the validation logs, "" when the call goes on to line 46
Validate(batch, rv) ==
    IF batch = <<>> THEN "no_data"
    ELSE IF rv \notin Rivers THEN "bad_river"
    ELSE ""

\* line 46: GeneratePDF._river_data[river] = report_data
Stored(d, rv, batch) == [d EXCEPT ![rv] = <<batch>>]

\* all(data is not None ...) with one slot enough
AnyPresent(d) == \E rv \in Rivers : d[rv] # <<>>

\* line 49: all(data is not None for data in GeneratePDF._river_data.values())
AllPresent(d) == \A rv \in Rivers : d[rv] # <<>>

\* lines 107-110: the batch the table of a river is built from, <<>> when the
\* river is skipped
TableOf(d, rv) == IF d[rv] = <<>> \/ d[rv][1] = <<>> THEN <<>> ELSE d[rv]

\* a caller that is not inside create_pdf_report
Caller(names, batches, calls) ==
    [pc |-> "idle", river |-> "", batch |-> <<>>, k |-> 1, tables |-> EmptyStore,
     logged |-> "", names |-> names, batches |-> batches, left |-> calls]

\* no report is being laid out
ReportIdle ==
    /\ river = "ilr"
    /\ report_data = <<>>
    /\ pc = "idle"
    /\ idx = 1
    /\ data = <<>>
    /\ region_groups = <<>>
    /\ current_region = None
    /\ start_row = 1
    /\ region_phases = [k \in {} |-> "neutral"]
    /\ phases = <<>>
    /\ table_styles = <<>>
    /\ g = 1
    /\ r = 1
    /\ normal = Unbound
    /\ high_watch = Unbound
    /\ high_action = Unbound
    /\ raised = ""

\* one caller, any arguments, one call after the other
InitStore ==
    /\ ReportIdle
    /\ RunIdle
    /\ river_data = EmptyStore
    /\ reports = <<>>
    /\ latest = EmptyStore
    /\ FetchIdle
    /\ workers = [t \in {"main"} |-> Caller(RiverNames, StoreBatches, MaxCalls)]

\* three workers, one per river, each with one non-empty batch
InitWorkers ==
    /\ ReportIdle
    /\ RunIdle
    /\ river_data = EmptyStore
    /\ reports = <<>>
    /\ latest = EmptyStore
    /\ FetchIdle
    /\ workers = [t \in Rivers |-> Caller({t}, StoreBatches \ {<<>>}, 1)]

\* lines 19-43: create_pdf_report is called and validates its arguments
Call(t) ==
    /\ workers[t].pc = "idle"
    /\ workers[t].left > 0
    /\ \E rv \in workers[t].names : \E batch \in workers[t].batches :
          LET logged == Validate(batch, rv)
          IN  /\ workers' = [workers EXCEPT ![t].pc = IF logged = "" THEN "store" ELSE "idle",
                                            ![t].river = rv,
                                            ![t].batch = batch,
                                            ![t].logged = logged,
                                            ![t].left = @ - 1]
              /\ latest' = IF logged = "" THEN [latest EXCEPT ![rv] = <<batch>>]
                           ELSE latest
    /\ UNCHANGED <<river_data, reports>>
    /\ UNCHANGED <<reportVars, fetchVars, csvVars, runVars>>

\* line 46
Store(t) ==
    /\ workers[t].pc = "store"
    /\ river_data' = Stored(river_data, workers[t].river, workers[t].batch)
    /\ workers' = [workers EXCEPT ![t].pc = "check"]
    /\ UNCHANGED <<reports, latest>>
    /\ UNCHANGED <<reportVars, fetchVars, csvVars, runVars>>

\* line 49: the report is due, or the call returns
Check(t) ==
    /\ workers[t].pc = "check"
    /\ workers' = [workers EXCEPT ![t].pc = IF AllPresent(river_data) THEN "tables"
                                             ELSE "idle",
                                  ![t].k = 1,
                                  ![t].tables = EmptyStore]
    /\ UNCHANGED <<river_data, reports, latest>>
    /\ UNCHANGED <<reportVars, fetchVars, csvVars, runVars>>

\* lines 106-300: one iteration of "for river in ['ilr', 'umr', 'mor']", the
\* batch of the river read at line 107
ReadRiver(t) ==
    /\ workers[t].pc = "tables"
    /\ workers[t].k <= Len(RiverOrder)
    /\ LET rv == RiverOrder[workers[t].k]
       IN  workers' = [workers EXCEPT ![t].k = @ + 1,
                                      ![t].tables[rv] = TableOf(river_data, rv)]
    /\ UNCHANGED <<river_data, reports, latest>>
    /\ UNCHANGED <<reportVars, fetchVars, csvVars, runVars>>

\* lines 302-319: the notes are added and the combined report is built
BuildPdf(t) ==
    /\ workers[t].pc = "tables"
    /\ workers[t].k > Len(RiverOrder)
    /\ reports' = Append(reports, workers[t].tables)
    /\ workers' = [workers EXCEPT ![t].pc = "reset"]
    /\ UNCHANGED <<river_data, latest>>
    /\ UNCHANGED <<reportVars, fetchVars, csvVars, runVars>>

\* line 53: the stored data is reset, the call returns
Reset(t) ==
    /\ workers[t].pc = "reset"
    /\ river_data' = EmptyStore
    /\ workers' = [workers EXCEPT ![t].pc = "idle"]
    /\ UNCHANGED <<reports, latest>>
    /\ UNCHANGED <<reportVars, fetchVars, csvVars, runVars>>

NextStore ==
    \E t \in DOMAIN workers :
        \/ Call(t)
        \/ Store(t)
        \/ Check(t)
        \/ ReadRiver(t)
        \/ BuildPdf(t)
        \/ Reset(t)

\* a series of calls of create_pdf_report by one caller
SpecStore == InitStore /\ [][NextStore]_vars

\* create_pdf_report called by three workers at once
SpecWorkers == InitWorkers /\ [][NextStore]_vars

(***************************************************************************)
(* The threaded generator, app/report_generator.py: generate_reports reads *)
(* the gauges of one river and make_csv writes and archives the CSV files. *)
(* A file is [name, ctime, rows]; its name is <<river, second>>.           *)
(***************************************************************************)
\* the longest input file of a river
MaxFileRows == 3

\* the last second of the clock
MaxClock == 3

\* the URL cells of an input file: no URL and two gauges' pages
UrlCells == {"", "u1", "u2"}

Urls == UrlCells \ {""}

\* what get_water_level returns, lines 67-77: a float or None
Levels == {CurNone, CurFloat(1), CurFloat(2)}

\* the rows csv.DictReader yields for an input file with the URL cells urls
FileOf(urls) == [i \in 1..Len(urls) |-> [URL |-> urls[i], Gauge |-> NatStr(i)]]

\* the input files of a river
Files ==
    {FileOf(urls) : urls \in UNION {[1..n -> UrlCells] : n \in 0..MaxFileRows}}

\* the input file of a second river, with a URL of the first one twice
SharedFile == FileOf(<<"u1", "u1">>)

\* url_cache = {}, line 106
EmptyCache == [u \in {} |-> CurNone]

\* a cache that keeps no failed fetch
CachePutFound(url_cache, url, current_level) ==
    IF current_level = CurNone THEN url_cache
    ELSE [u \in DOMAIN url_cache \cup {url} |->
             IF u = url THEN current_level ELSE url_cache[u]]

\* url_cache[row['URL']] = current_level, line 123
CachePut(url_cache, url, current_level) ==
    [u \in DOMAIN url_cache \cup {url} |-> IF u = url THEN current_level ELSE url_cache[u]]

\* line 124: current_level if current_level is not None else "No Data"
CurrentOf(current_level) ==
    IF current_level = CurNone THEN CurStr(StrNoData) ELSE current_level

\* the row as line 131 appends it
ReportRow(row, current) == [URL |-> row.URL, Gauge |-> row.Gauge, Current |-> current]

\* report.append(row) putting the row in front
AppendFirst(report, row) == <<row>> \o report

\* report.append(row), line 131
AppendRow(report, row) == Append(report, row)

\* a thread about to call generate_reports(path, river_name) on the file rows
GenThread(river_name, rows) ==
    [pc |-> "start", river_name |-> river_name, rows |-> rows, i |-> 1,
     url_cache |-> EmptyCache, report |-> <<>>, empty_url_count |-> 0,
     output_filename |-> <<"", 0>>, logged |-> ""]

\* a thread about to call make_csv(report_file, river_name, reader)
CsvThread(river_name, report_file) ==
    [GenThread(river_name, <<>>) EXCEPT !.pc = "csv_name", !.report = report_file]

File(river_name, second, ctime, rows) ==
    [name |-> <<river_name, second>>, ctime |-> ctime, rows |-> rows]

\* the CSV files earlier runs left in reports/csv/
OldCsv == {File("ilr", 0, -2, <<>>), File("ilr", 1, -1, <<>>), File("umr", 0, 0, <<>>)}

\* f.startswith(f'{river_name}_') and f.endswith('.csv'), line 183
OfRiver(f, river_name) == f.name[1] = river_name

\* lines 187-192 sorted oldest first: the file kept is the oldest
Oldest(csv_files) == CHOOSE f \in csv_files : \A h \in csv_files : f.ctime <= h.ctime

\* lines 187-192: csv_files[0][0] after the sort by ctime, newest first
Newest(csv_files) == CHOOSE f \in csv_files : \A h \in csv_files : h.ctime <= f.ctime

\* the directories and the clocks as generate_reports finds them
DirsStart ==
    /\ csv_dir = OldCsv
    /\ archive_dir = {}
    /\ report_lock = ""
    /\ now = 1
    /\ stamp = 1

\* a thread on any file of ilr, and one on the file of umr
InitFetch ==
    /\ ReportIdle
    /\ StoreIdle
    /\ RunIdle
    /\ DirsStart
    /\ \E rows \in Files :
          gens = [t \in {"ilr", "umr"} |->
                     IF t = "ilr" THEN GenThread(t, rows) ELSE GenThread(t, SharedFile)]
    /\ fetched = [t \in {"ilr", "umr"} |-> [u \in Urls |-> 0]]

\* the report of one gauge
OneRow == <<ReportRow([URL |-> "u1", Gauge |-> NatStr(1)], CurFloat(1))>>

\* the three threads of main, each about to call make_csv
InitCsv ==
    /\ ReportIdle
    /\ StoreIdle
    /\ RunIdle
    /\ DirsStart
    /\ gens = [t \in Rivers |-> CsvThread(t, OneRow)]
    /\ fetched = [t \in Rivers |-> [u \in Urls |-> 0]]

\* lines 96-113: the input file is opened, the locals are initialised
GenOpen(t) ==
    /\ gens[t].pc = "start"
    /\ gens' = [gens EXCEPT ![t].pc = "rows",
                            ![t].i = 1,
                            ![t].report = <<>>,
                            ![t].url_cache = EmptyCache,
                            ![t].empty_url_count = 0]
    /\ UNCHANGED <<fetched, csvVars, storeVars, reportVars, runVars>>

\* lines 115-131: one iteration of "for row in reader"; get_water_level, lines
\* 44-77, returns any level when the URL is not in the cache
GenRow(t) ==
    /\ gens[t].pc = "rows"
    /\ gens[t].i <= Len(gens[t].rows)
    /\ LET row == gens[t].rows[gens[t].i]
           url == row.URL
       IN  IF url # ""
           THEN IF url \in DOMAIN gens[t].url_cache
                THEN /\ gens' = [gens EXCEPT
                           ![t].report = AppendRow(@, ReportRow(row,
                                             CurrentOf(gens[t].url_cache[url]))),
                           ![t].i = @ + 1]
                     /\ fetched' = fetched
                ELSE \E current_level \in Levels :
                     /\ gens' = [gens EXCEPT
                           ![t].url_cache = CachePut(@, url, current_level),
                           ![t].report = AppendRow(@, ReportRow(row,
                                             CurrentOf(current_level))),
                           ![t].i = @ + 1]
                     /\ fetched' = [fetched EXCEPT ![t][url] = @ + 1]
           ELSE /\ gens' = [gens EXCEPT
                      ![t].report = AppendRow(@, ReportRow(row, CurStr(StrNoData))),
                      ![t].empty_url_count = @ + 1,
                      ![t].i = @ + 1]
                /\ fetched' = fetched
    /\ UNCHANGED <<csvVars, storeVars, reportVars, runVars>>

\* lines 133-144: no row read, an error is logged and the call returns; else
\* make_csv is called
GenEnd(t) ==
    /\ gens[t].pc = "rows"
    /\ gens[t].i > Len(gens[t].rows)
    /\ gens' = IF gens[t].report = <<>>
               THEN [gens EXCEPT ![t].pc = "returned", ![t].logged = "no_data"]
               ELSE [gens EXCEPT ![t].pc = "csv_name"]
    /\ UNCHANGED <<fetched, csvVars, storeVars, reportVars, runVars>>

\* lines 164-168: output_filename from the river and the clock
CsvName(t) ==
    /\ gens[t].pc = "csv_name"
    /\ gens' = [gens EXCEPT ![t].pc = "csv_write",
                            ![t].output_filename = <<gens[t].river_name, now>>]
    /\ UNCHANGED <<fetched, csvVars, storeVars, reportVars, runVars>>

\* lines 171-177: report_lock is taken and the new CSV is written, over a file
\* of the same name if there is one
CsvWrite(t) ==
    /\ gens[t].pc = "csv_write"
    /\ report_lock = ""
    /\ report_lock' = t
    /\ csv_dir' = {f \in csv_dir : f.name # gens[t].output_filename}
                    \cup {[name |-> gens[t].output_filename, ctime |-> stamp,
                           rows |-> gens[t].report]}
    /\ stamp' = stamp + 1
    /\ gens' = [gens EXCEPT ![t].pc = "csv_archive"]
    /\ UNCHANGED <<fetched, archive_dir, now, storeVars, reportVars, runVars>>

\* lines 180-203: every CSV of the river but the newest is moved to the archive,
\* and report_lock is released
CsvArchive(t) ==
    /\ gens[t].pc = "csv_archive"
    /\ LET csv_files == {f \in csv_dir : OfRiver(f, gens[t].river_name)}
           older == IF csv_files = {} THEN {} ELSE csv_files \ {Newest(csv_files)}
       IN  /\ csv_dir' = csv_dir \ older
           /\ archive_dir' =
                 {f \in archive_dir : \A h \in older : h.name # f.name} \cup older
    /\ report_lock' = ""
    /\ gens' = [gens EXCEPT ![t].pc = "done"]
    /\ UNCHANGED <<fetched, now, stamp, storeVars, reportVars, runVars>>

\* a second passes
Tick ==
    /\ now < MaxClock
    /\ now' = now + 1
    /\ UNCHANGED <<gens, fetched, csv_dir, archive_dir, report_lock, stamp,
                   storeVars, reportVars, runVars>>

NextFetch ==
    \E t \in DOMAIN gens :
        \/ GenOpen(t)
        \/ GenRow(t)
        \/ GenEnd(t)
        \/ CsvName(t)
        \/ CsvWrite(t)
        \/ CsvArchive(t)

NextCsv ==
    \/ \E t \in DOMAIN gens :
          \/ CsvName(t)
          \/ CsvWrite(t)
          \/ CsvArchive(t)
    \/ Tick

\* generate_reports on the files of two rivers, one thread each
SpecFetch == InitFetch /\ [][NextFetch]_vars

\* make_csv called by the three threads of main at once
SpecCsv == InitCsv /\ [][NextCsv]_vars

(***************************************************************************)
(* The standalone generate_report, src/report_generator.py lines 237-264:  *)
(* every row with a URL is fetched, no cache, and a row without a URL      *)
(* reads the local current_level as the rows before it left it.            *)
(***************************************************************************)
\* the local current_level before its first assignment
NoLevel == [bound |-> FALSE, v |-> CurNone]

Level(v) == [bound |-> TRUE, v |-> v]

\* lines 245-248: the level, or "No Data" when get_water_level returned None
SaCurrentOf(current_level) ==
    IF current_level # CurNone THEN current_level ELSE CurStr(StrNoData)

\* generate_report(file) about to open the file rows
LoadCall(rows) ==
    [pc |-> "start", rows |-> rows, i |-> 1, current_level |-> NoLevel,
     report |-> <<>>, raised |-> ""]

\* generate_report on any input file
InitLoad ==
    /\ ReportIdle
    /\ StoreIdle
    /\ FetchIdle
    /\ MainIdle
    /\ \E rows \in Files : loader = LoadCall(rows)

\* lines 238-241: report = [], the file is opened and read by csv.DictReader
LoadOpen ==
    /\ loader.pc = "start"
    /\ loader' = [loader EXCEPT !.pc = "rows", !.report = <<>>]
    /\ UNCHANGED <<reportVars, storeVars, fetchVars, csvVars, mainVars>>

\* lines 242-256: one iteration of the loop over the rows
LoadRow ==
    /\ loader.pc = "rows"
    /\ loader.i <= Len(loader.rows)
    /\ LET row == loader.rows[loader.i]
       IN  IF row.URL # ""
           THEN \E level \in Levels :
                   loader' = [loader EXCEPT
                                 !.current_level = Level(level),
                                 !.report = Append(@, ReportRow(row, SaCurrentOf(level))),
                                 !.i = @ + 1]
           ELSE IF ~loader.current_level.bound
                THEN loader' = [loader EXCEPT !.pc = "raised",
                                              !.raised = "UnboundLocalError"]
                ELSE loader' = [loader EXCEPT
                                   !.report = Append(@, ReportRow(row, loader.current_level.v)),
                                   !.i = @ + 1]
    /\ UNCHANGED <<reportVars, storeVars, fetchVars, csvVars, mainVars>>

\* line 259: the loop is over, create_pdf_report(report, file) gets the rows
LoadPdf ==
    /\ loader.pc = "rows"
    /\ loader.i > Len(loader.rows)
    /\ loader' = [loader EXCEPT !.pc = "pdf"]
    /\ UNCHANGED <<reportVars, storeVars, fetchVars, csvVars, mainVars>>

NextLoad ==
    \/ LoadOpen
    \/ LoadRow
    \/ LoadPdf

\* the standalone generator reading one input file
SpecLoad == InitLoad /\ [][NextLoad]_vars

(***************************************************************************)
(* main of the threaded generator, src/app/report_generator.py lines       *)
(* 209-249, and the logging of lines 16-38: every logger call puts a       *)
(* record on log_queue, the QueueListener's thread takes the records off   *)
(* and marks each done, and leaves its loop at the sentinel that           *)
(* listener.stop() puts.  log_queue.join() waits for unfinished_tasks = 0. *)
(***************************************************************************)
\* the most records a river thread logs
MaxLogs == 2

\* rivers = ['ilr', 'umr', 'mor'], line 224
MainRivers == <<"ilr", "umr", "mor">>

\* QueueListener._sentinel
Sentinel == "sentinel"

\* a LogRecord: what it says does not steer the listener
Record == "record"

\* a river thread that still logs left records, lines 97-206
RiverThread(left) == [pc |-> "running", left |-> left]

\* main() is called, the listener of line 38 is waiting for records
InitMain ==
    /\ ReportIdle
    /\ StoreIdle
    /\ FetchIdle
    /\ LoadIdle
    /\ main = [pc |-> "start", k |-> 1]
    /\ threads = <<>>
    /\ log_queue = <<>>
    /\ unfinished = 0
    /\ listener = [pc |-> "dequeue", record |-> ""]

\* lines 231-237: the river is logged, its thread is created and started
MainStart ==
    /\ main.pc = "start"
    /\ log_queue' = Append(log_queue, Record)
    /\ unfinished' = unfinished + 1
    /\ \E left \in 1..MaxLogs : threads' = Append(threads, RiverThread(left))
    /\ main' = IF main.k < Len(MainRivers)
               THEN [main EXCEPT !.k = @ + 1]
               ELSE [main EXCEPT !.pc = "join", !.k = 1]
    /\ UNCHANGED <<listener, reportVars, storeVars, fetchVars, csvVars, loadVars>>

\* line 243: thread.join(timeout=timeout) returns, the thread over or not
MainJoin ==
    /\ main.pc = "join"
    /\ main' = [main EXCEPT !.pc = "is_alive"]
    /\ UNCHANGED <<threads, log_queue, unfinished, listener>>
    /\ UNCHANGED <<reportVars, storeVars, fetchVars, csvVars, loadVars>>

\* lines 244-245: a thread that is still alive is logged as timed out
MainIsAlive ==
    /\ main.pc = "is_alive"
    /\ IF threads[main.k].pc = "running"
       THEN /\ log_queue' = Append(log_queue, Record)
            /\ unfinished' = unfinished + 1
       ELSE UNCHANGED <<log_queue, unfinished>>
    /\ main' = IF main.k < Len(threads)
               THEN [main EXCEPT !.pc = "join", !.k = @ + 1]
               ELSE [main EXCEPT !.pc = "stop"]
    /\ UNCHANGED <<threads, listener>>
    /\ UNCHANGED <<reportVars, storeVars, fetchVars, csvVars, loadVars>>

\* line 247, listener.stop(): enqueue_sentinel puts the sentinel
MainStop ==
    /\ main.pc = "stop"
    /\ log_queue' = Append(log_queue, Sentinel)
    /\ unfinished' = unfinished + 1
    /\ main' = [main EXCEPT !.pc = "stop_join"]
    /\ UNCHANGED <<threads, listener>>
    /\ UNCHANGED <<reportVars, storeVars, fetchVars, csvVars, loadVars>>

\* line 247, listener.stop(): the join on the listener's thread returns
MainStopJoin ==
    /\ main.pc = "stop_join"
    /\ listener.pc = "exited"
    /\ main' = [main EXCEPT !.pc = "queue_join"]
    /\ UNCHANGED <<threads, log_queue, unfinished, listener>>
    /\ UNCHANGED <<reportVars, storeVars, fetchVars, csvVars, loadVars>>

\* lines 248-249: log_queue.join() returns, logging.shutdown(), main returns
MainQueueJoin ==
    /\ main.pc = "queue_join"
    /\ unfinished = 0
    /\ main' = [main EXCEPT !.pc = "returned"]
    /\ UNCHANGED <<threads, log_queue, unfinished, listener>>
    /\ UNCHANGED <<reportVars, storeVars, fetchVars, csvVars, loadVars>>

\* a logger call of generate_reports or make_csv in the river thread k
RiverLog(k) ==
    /\ threads[k].pc = "running"
    /\ threads[k].left > 0
    /\ threads' = [threads EXCEPT ![k].left = @ - 1]
    /\ log_queue' = Append(log_queue, Record)
    /\ unfinished' = unfinished + 1
    /\ UNCHANGED <<main, listener>>
    /\ UNCHANGED <<reportVars, storeVars, fetchVars, csvVars, loadVars>>

\* generate_reports returns, the river thread k is over
RiverReturn(k) ==
    /\ threads[k].pc = "running"
    /\ threads[k].left = 0
    /\ threads' = [threads EXCEPT ![k].pc = "finished"]
    /\ UNCHANGED <<main, log_queue, unfinished, listener>>
    /\ UNCHANGED <<reportVars, storeVars, fetchVars, csvVars, loadVars>>

\* QueueListener._monitor: record = self.dequeue(True)
ListenerDequeue ==
    /\ listener.pc = "dequeue"
    /\ log_queue # <<>>
    /\ listener' = [pc |-> "task_done", record |-> Head(log_queue)]
    /\ log_queue' = Tail(log_queue)
    /\ UNCHANGED <<main, threads, unfinished>>
    /\ UNCHANGED <<reportVars, storeVars, fetchVars, csvVars, loadVars>>

\* QueueListener._monitor: the record is handled and q.task_done() is called,
\* and the loop is left when the record is the sentinel
ListenerTaskDone ==
    /\ listener.pc = "task_done"
    /\ unfinished' = unfinished - 1
    /\ listener' = [listener EXCEPT
                       !.pc = IF listener.record = Sentinel THEN "exited" ELSE "dequeue"]
    /\ UNCHANGED <<main, threads, log_queue>>
    /\ UNCHANGED <<reportVars, storeVars, fetchVars, csvVars, loadVars>>

MainNext ==
    \/ MainStart
    \/ MainJoin
    \/ MainIsAlive
    \/ MainStop
    \/ MainStopJoin
    \/ MainQueueJoin

RiverNext(k) ==
    \/ RiverLog(k)
    \/ RiverReturn(k)

ListenerNext ==
    \/ ListenerDequeue
    \/ ListenerTaskDone

NextMain ==
    \/ MainNext
    \/ \E k \in 1..Len(threads) : RiverNext(k)
    \/ ListenerNext

\* main, the river threads and the listener's thread, in any order
SpecMain == InitMain /\ [][NextMain]_vars

\* every thread that can take a step takes one in the end
FairMain ==
    /\ WF_vars(MainNext)
    /\ WF_vars(ListenerNext)
    /\ \A k \in 1..Len(MainRivers) : WF_vars(k <= Len(threads) /\ RiverNext(k))

\* main under the scheduler of the interpreter, which starves no thread
SpecMainLive == SpecMain /\ FairMain

(***************************************************************************)
(* The properties.  Severity is the specification's order of the phases,   *)
(* Neutral < Green < Yellow < Red, stated apart from the code's            *)
(* phase_priority.                                                         *)
(***************************************************************************)
Severity(p) ==
    CASE p = "red" -> 3 [] p = "yellow" -> 2 [] p = "green" -> 1 [] OTHER -> 0

\* the most severe of a set of severities, Neutral for no row
MaxSeverity(S) == IF S = {} THEN 0 ELSE CHOOSE m \in S : \A x \in S : x <= m

GroupRegion(k) == region_groups[k][1]

\* the table rows of group k
GroupRows(k) == region_groups[k][2]..(region_groups[k][3] - 1)

\* the colour the report gave the region cell of group k
GroupColour(k) ==
    LET st == CHOOSE i \in 1..Len(table_styles) :
                  /\ table_styles[i].op = "BACKGROUND"
                  /\ table_styles[i].c0 = 0
                  /\ table_styles[i].r0 = region_groups[k][2]
    IN  table_styles[st].color

\* the worst phase among the rows of S
WorstOf(S) == MaxSeverity({Severity(phases[i]) : i \in S})

\* the rows of the whole batch with region id region
RowsOfRegion(region) == {i \in 1..Len(report_data) : report_data[i].region = region}

Groups == 1..Len(region_groups)

C2_BlockAtLeastEachRow ==
    pc = "built" =>
        \A k \in Groups : \A i \in GroupRows(k) :
            Severity(GroupColour(k)) >= Severity(phases[i])

\* C2 as amended: in every block with a non-empty region id the block's worst
\* phase is at least as severe as the phase of each of its rows; a block with the
\* empty region id is always neutral, whatever its rows are.
C2_NamedBlockAtLeastEachRow ==
    pc = "built" =>
        \A k \in Groups :
            IF GroupRegion(k) = ""
            THEN GroupColour(k) = "transparent"
            ELSE \A i \in GroupRows(k) :
                    Severity(GroupColour(k)) >= Severity(phases[i])

\* C2 witness: a named block of several rows holds a red gauge after a milder one
C2_Witness ==
    /\ pc = "built"
    /\ \E k \in Groups :
          /\ GroupRegion(k) # ""
          /\ \E i, j \in GroupRows(k) : i < j /\ phases[i] = "green" /\ phases[j] = "red"
          /\ GroupColour(k) = "red"

(***************************************************************************)
(* One classified row.  A threshold of the specification is a scalar, a    *)
(* range "low - high", absent (blank), or malformed.                       *)
(***************************************************************************)
\* the first table row, once it is there
Row1 == At(data, 1)

Classified == pc \in {"rows", "groups", "cells", "built"} /\ Len(phases) >= 1

Blank(cell) == Strip(cell) = <<>>

IsScalar(cell) == ~Blank(cell) /\ ParseFloat(cell).ok

IsRange(cell) ==
    /\ Len(Split(cell)) = 2
    /\ ParseFloat(Split(cell)[1]).ok
    /\ ParseFloat(Split(cell)[2]).ok

Malformed(cell) == ~Blank(cell) /\ ~IsScalar(cell) /\ ~IsRange(cell)

RangeLow(cell) == ParseFloat(Split(cell)[1])

RangeHigh(cell) == ParseFloat(Split(cell)[2])

\* the reading of a table row is a number
Numeric(row) ==
    /\ At(row, 7) # StrNoData
    /\ ~Blank(At(row, 7))
    /\ ParseFloat(At(row, 7)).ok

Reading(row) == ParseFloat(At(row, 7))

\* the band cells that got a BACKGROUND on table row q
CellStyles(q) ==
    {i \in 1..Len(table_styles) :
        /\ table_styles[i].op = "BACKGROUND"
        /\ table_styles[i].c0 >= 2
        /\ table_styles[i].r0 = q}

\* C3 as stated: a five-band gauge with a numeric reading at or below a scalar
\* low_action bound, positive, zero or negative, is Red whatever the other bands.
C3_LowActionRed ==
    (/\ Classified
     /\ river # "umr"
     /\ Numeric(Row1)
     /\ IsScalar(At(Row1, 2))
     /\ Leq(Reading(Row1), ParseFloat(At(Row1, 2))))
        => phases[1] = "red"

\* C4 as stated: a three-band gauge with a numeric reading at or above its action
\* bound is Red, whatever the watch range and the normal bound.
C4_ActionRed ==
    (/\ Classified
     /\ river = "umr"
     /\ Numeric(Row1)
     /\ IsScalar(At(Row1, 6))
     /\ Leq(ParseFloat(At(Row1, 6)), Reading(Row1)))
        => phases[1] = "red"

\* the comparison of the band in column col as the specification states it:
\* low_action <=, low_watch, normal and high_watch <= the value or the upper bound
\* of the range, high_action >=
BandHolds(col, cell, reading) ==
    IF IsScalar(cell)
    THEN IF col = 6 THEN Leq(ParseFloat(cell), reading) ELSE Leq(reading, ParseFloat(cell))
    ELSE IF IsRange(cell)
    THEN IF col = 6 THEN Leq(RangeLow(cell), reading) ELSE Leq(reading, RangeHigh(cell))
    ELSE FALSE

\* the colours of the five bands in their fixed order
BandPhase(col) ==
    CASE col = 2 -> "red" [] col = 3 -> "yellow" [] col = 4 -> "green"
      [] col = 5 -> "yellow" [] col = 6 -> "red"

\* the phase of the earliest band whose comparison holds, Neutral when none does
FirstMatch(row) ==
    LET holding == {col \in 2..6 : BandHolds(col, At(row, col), Reading(row))}
    IN  IF holding = {} THEN "neutral"
        ELSE BandPhase(CHOOSE col \in holding : \A c \in holding : col <= c)

\* C5 as stated: the phase of a five-band gauge with a numeric reading is the
\* colour of the earliest band, in the order low_action, low_watch, normal,
\* high_watch, high_action, whose comparison holds, and Neutral when none holds.
C5_FirstMatchWins ==
    (Classified /\ river # "umr" /\ Numeric(Row1)) => phases[1] = FirstMatch(Row1)

\* C6 as stated: a low_watch, normal or high_watch band given as a range matches
\* whenever the reading is at or below the upper bound of the range, the lower
\* bound playing no part: with the bands before it absent, its colour is the phase.
C6_RangeUpperBoundOnly ==
    (Classified /\ river # "umr" /\ Numeric(Row1)) =>
        \A col \in 3..5 :
            (/\ \A c \in 2..(col - 1) : At(Row1, c) = <<>>
             /\ IsRange(At(Row1, col))
             /\ Leq(Reading(Row1), RangeHigh(At(Row1, col))))
                => phases[1] = BandPhase(col)

\* C7: a row whose Current is "No Data", blank or not a number is Neutral and no
\* band cell of it is highlighted, in the combined report for both schemas and
\* in the standalone report, whatever the threshold cells hold.
C7_AbsentReadingNeutral ==
    /\ (pc = "built" /\ ~Numeric(Row1)) =>
            phases[1] = "neutral" /\ CellStyles(1) = {}
    /\ pc \in {"sa_rows", "sa_built", "sa_raised"} =>
            \A q \in 1..(Len(data) - 1) : ~Numeric(At(data, q)) => CellStyles(q) = {}

\* C7 witness: an unreadable Current beside a Normal bound, the report built
C7_Witness ==
    /\ pc = "built"
    /\ At(Row1, 7) = <<"x">>
    /\ At(Row1, 4) = NatStr(2)
    /\ phases[1] = "neutral"

\* the row with the band cell in column col blanked
WithBlank(row, col) == [row EXCEPT ![col + 1] = <<>>]

\* the row with the band cells from column col on blanked
CutAt(row, col) == [i \in 1..Len(row) |-> IF i - 1 \in col..6 THEN <<>> ELSE row[i]]

C9_NoUncaughtException == raised = "" /\ pc # "sa_raised"

(***************************************************************************)
(* The layout of the combined report                                       *)
(***************************************************************************)
\* the text the region cell of table row i displays
Shown(i) == At(data, i)[1].text

\* C10: the table has one row per input row, in input order; the groups are the
\* maximal runs of consecutive rows with one region id, in input order, a region
\* id that comes back after another one opening a group of its own; and in each
\* group the first row alone displays the region id.
C10_GroupsAreMaximalRuns ==
    pc = "built" =>
        /\ Len(data) = Len(report_data) + 1
        /\ \A i \in 1..Len(report_data) :
              LET want == TableRow(river, report_data[i])
              IN  \A c \in 1..7 : At(At(data, i), c) = At(want, c)
        /\ Len(region_groups) >= 1
        /\ region_groups[1][2] = 1
        /\ region_groups[Len(region_groups)][3] = Len(report_data) + 1
        /\ \A k \in Groups :
              /\ region_groups[k][2] < region_groups[k][3]
              /\ \A i \in GroupRows(k) : report_data[i].region = GroupRegion(k)
              /\ Shown(region_groups[k][2]) = GroupRegion(k)
              /\ \A i \in GroupRows(k) : i # region_groups[k][2] => Shown(i) = ""
        /\ \A k \in 1..(Len(region_groups) - 1) :
              /\ region_groups[k][3] = region_groups[k + 1][2]
              /\ GroupRegion(k) # GroupRegion(k + 1)

\* C10 witness: a region id comes back after another one, and a group has
\* several rows
C10_Witness ==
    /\ pc = "built"
    /\ \E j, k \in Groups : j + 1 < k /\ GroupRegion(j) = GroupRegion(k)
    /\ \E k \in Groups : region_groups[k][3] - region_groups[k][2] >= 3

(***************************************************************************)
(* The two classification passes of the combined report                    *)
(***************************************************************************)
\* C11: when the table is built, every row has at most one highlighted band
\* cell, that cell has the colour of the phase the first pass gave the row, and
\* a row has no highlighted band cell exactly when its phase is Neutral.
C11_PassesAgree ==
    pc = "built" =>
        \A q \in 1..Len(phases) :
            /\ Cardinality(CellStyles(q)) <= 1
            /\ (phases[q] = "neutral") <=> (CellStyles(q) = {})
            /\ \A i \in CellStyles(q) :
                  /\ table_styles[i].color = phases[q]
                  /\ table_styles[i].c0 = table_styles[i].c1
                  /\ table_styles[i].r1 = q
                  /\ table_styles[i].c0 = ClassifyRow(river, At(data, q)).col

\* C11 witness: a umr row the first pass found Red on its action bound has its
\* Action cell highlighted red, in a table with a Neutral row
C11_Witness ==
    /\ pc = "built"
    /\ river = "umr"
    /\ \E q \in 1..Len(phases) :
          /\ phases[q] = "red"
          /\ \E i \in CellStyles(q) :
                table_styles[i].c0 = 6 /\ table_styles[i].color = "red"
    /\ \E q \in 1..Len(phases) : phases[q] = "neutral" /\ CellStyles(q) = {}

(***************************************************************************)
(* The store of create_pdf_report                                          *)
(***************************************************************************)
\* C12: over a series of calls by one caller, a combined report is being built
\* only with data present for all three rivers and from the batch each river
\* was last submitted with; the report built is that one, and the reset follows
\* it; and whenever the caller is outside a call, a slot of the store is empty
\* and every report built so far holds a batch for each of the three rivers.
C12_ReportWhenAllThree ==
    \A t \in DOMAIN workers :
        /\ workers[t].pc = "idle" => \E rv \in Rivers : river_data[rv] = <<>>
        /\ workers[t].pc = "idle" =>
              \A rv \in Rivers : river_data[rv] \in {<<>>, latest[rv]}
        /\ workers[t].pc = "tables" =>
              /\ \A rv \in Rivers : river_data[rv] # <<>>
              /\ river_data = latest
        /\ workers[t].pc = "reset" =>
              /\ reports # <<>>
              /\ reports[Len(reports)] = latest
              /\ river_data = latest
        /\ \A i \in 1..Len(reports) : \A rv \in Rivers :
              reports[i][rv] # <<>> /\ reports[i][rv][1] # <<>>

\* C12 witness: a second report, unlike the first, has been built and the reset
\* is about to follow it
C12_Witness ==
    /\ "main" \in DOMAIN workers
    /\ workers["main"].pc = "reset"
    /\ Len(reports) = 2
    /\ reports[1] # reports[2]

\* C13: a call of create_pdf_report with a batch of zero rows or with a river
\* name that is none of ilr, umr, mor returns at once with an error logged: the
\* stored batches, the reports and the history of submissions are as before it.
C13_InvalidCallLeavesStore ==
    [][\A t \in DOMAIN workers :
          (/\ workers[t].pc = "idle"
           /\ workers'[t].left = workers[t].left - 1
           /\ (workers'[t].batch = <<>> \/ workers'[t].river \notin Rivers))
             => /\ workers'[t].pc = "idle"
                /\ workers'[t].logged \in {"no_data", "bad_river"}
                /\ river_data' = river_data
                /\ reports' = reports
                /\ latest' = latest]_vars

\* C13 witness: a call under a name that is no river has returned with its error
\* logged while the batches of two rivers are stored
C13_Witness ==
    /\ "main" \in DOMAIN workers
    /\ workers["main"].pc = "idle"
    /\ workers["main"].river = "xyz"
    /\ workers["main"].batch # <<>>
    /\ workers["main"].logged = "bad_river"
    /\ river_data["ilr"] # <<>>
    /\ river_data["umr"] # <<>>
    /\ river_data["mor"] = <<>>

\* every worker has made its call and is back from it
AllReturned == \A t \in DOMAIN workers : workers[t].pc = "idle" /\ workers[t].left = 0

\* C20 as stated: when three workers, one per river and each with a non-empty
\* batch, call create_pdf_report at once, then under every interleaving exactly
\* one combined report is built, it holds the batch of each of the three rivers,
\* and the store ends empty.
C20_ExactlyOneReport ==
    (DOMAIN workers = Rivers /\ AllReturned) =>
        /\ Len(reports) = 1
        /\ \A rv \in Rivers : reports[1][rv] = latest[rv] /\ reports[1][rv] # <<>>
        /\ river_data = EmptyStore

(***************************************************************************)
(* The threaded generator                                                  *)
(***************************************************************************)
\* the rows of the report of thread t with the URL u
RowsWith(t, u) == {k \in 1..Len(gens[t].report) : gens[t].report[k].URL = u}

\* C14: within one generate_reports call get_water_level is invoked exactly once
\* for each non-empty URL among the rows read so far, a URL whose fetch failed
\* included, and never for another one; the rows sharing a URL have the Current
\* of the first of them; and a URL another thread has fetched is fetched again.
C14_OneFetchPerUrl ==
    \A t \in DOMAIN gens :
        /\ \A u \in Urls :
              fetched[t][u] = IF RowsWith(t, u) = {} THEN 0 ELSE 1
        /\ \A u \in Urls : \A j, k \in RowsWith(t, u) :
              gens[t].report[j].Current = gens[t].report[k].Current

\* C14 witness: both calls are over; the first fetch of u1 failed for ilr, whose
\* two rows with u1 both hold "No Data", and umr fetched u1 itself and got a level
C14_Witness ==
    /\ DOMAIN gens = {"ilr", "umr"}
    /\ gens["ilr"].pc = "done"
    /\ gens["umr"].pc = "done"
    /\ Cardinality(RowsWith("ilr", "u1")) = 2
    /\ \A k \in RowsWith("ilr", "u1") : gens["ilr"].report[k].Current = CurStr(StrNoData)
    /\ fetched["ilr"]["u1"] = 1
    /\ fetched["umr"]["u1"] = 1
    /\ gens["umr"].report[1].Current = CurFloat(1)

\* C15: the report holds the input rows read so far, each once and in input
\* order; the Current of a row is a number or "No Data", "No Data" for a row
\* with no URL; and the whole input is in the report handed to make_csv and in
\* the CSV written.
C15_RowsInOrderWithCurrent ==
    \A t \in DOMAIN gens :
        LET th == gens[t]
        IN  th.pc \in {"rows", "returned", "csv_name", "csv_write", "csv_archive", "done"}
            /\ th.rows # <<>> =>
               /\ th.pc = "rows" => Len(th.report) = th.i - 1
               /\ th.pc # "rows" => Len(th.report) = Len(th.rows)
               /\ \A k \in 1..Len(th.report) :
                     /\ th.report[k].URL = th.rows[k].URL
                     /\ th.report[k].Gauge = th.rows[k].Gauge
                     /\ \/ th.report[k].Current = CurStr(StrNoData)
                        \/ th.report[k].Current.kind = "float"
                     /\ th.rows[k].URL = "" => th.report[k].Current = CurStr(StrNoData)
               /\ th.pc \in {"csv_archive", "done"} =>
                     \E f \in csv_dir : f.name = th.output_filename /\ f.rows = th.report

\* C15 witness: a file with a gauge without URL, a gauge whose fetch failed and a
\* gauge with a level has been written out
C15_Witness ==
    /\ "ilr" \in DOMAIN gens
    /\ gens["ilr"].pc = "done"
    /\ Len(gens["ilr"].rows) = 3
    /\ gens["ilr"].rows[1].URL = ""
    /\ gens["ilr"].report[2].URL = "u1"
    /\ gens["ilr"].report[2].Current = CurStr(StrNoData)
    /\ gens["ilr"].report[3].URL = "u2"
    /\ gens["ilr"].report[3].Current = CurFloat(2)

\* the files of river rv in reports/csv/
CsvOf(rv) == {f \in csv_dir : f.name[1] = rv}

Present(v) == ~v.isNone

\* the three-band phase with every non-blank band taking part: action first,
\* then the watch range, then normal
ThreeBandPhase(row) ==
    LET current    == Reading(row)
        normal_val == FloatIfStrip(At(row, 4))
        action_val == FloatIfStrip(At(row, 6))
        watch_min  == WatchMin(At(row, 5))
        watch_max  == WatchMax(At(row, 5))
    IN  IF Present(action_val) /\ Leq(action_val, current) THEN "red"
        ELSE IF /\ Present(watch_min) /\ Present(watch_max)
                /\ Leq(watch_min, current) /\ Leq(current, watch_max) THEN "yellow"
        ELSE IF Present(normal_val) /\ Leq(current, normal_val) THEN "green"
        ELSE "neutral"

\* every threshold cell of a three-band row is blank or parses
ThreeBandParses(row) ==
    /\ FloatIfStrip(At(row, 4)).ok
    /\ FloatIfStrip(At(row, 6)).ok
    /\ WatchMin(At(row, 5)).ok
    /\ WatchMax(At(row, 5)).ok

\* C17 as stated: in a three-band row with a numeric reading and cells that
\* parse, every band whose field is not blank takes part in the comparison, a
\* band whose bound is 0 included; only a blank field is an absent band.
C17_ZeroBoundTakesPart ==
    (Classified /\ river = "umr" /\ Numeric(Row1) /\ ThreeBandParses(Row1))
        => phases[1] = ThreeBandPhase(Row1)

\* table row q of the standalone report has its band cell in column col
\* highlighted in color
SaHighlighted(q, col, color) ==
    \E i \in CellStyles(q) : table_styles[i].c0 = col /\ table_styles[i].color = color

\* the highlight loop of the standalone report is past table row q
SaPast(q) == pc \in {"sa_rows", "sa_built"} /\ r > q /\ Len(data) > q

\* every threshold cell of a standalone row is blank or parses as the loop reads it
SaParses(row) ==
    /\ ScalarCell(At(row, 2)).exc = ""
    /\ UpperCell(At(row, 3)).exc = ""
    /\ NormalCell(At(row, 4)).exc = ""
    /\ UpperCell(At(row, 5)).exc = ""
    /\ ScalarCell(At(row, 6)).exc = ""

\* the reading is at or under the bound p, when p is there
AtOrUnder(row, p) == ~p.isNone /\ Leq(Reading(row), p)

\* the reading is at or over the bound p, when p is there
AtOrOver(row, p) == ~p.isNone /\ Leq(p, Reading(row))

\* the reading of the row matches none of low_action, low_watch and normal
SaNoLowMatch(row) ==
    /\ ~AtOrUnder(row, ScalarCell(At(row, 2)))
    /\ ~AtOrUnder(row, UpperCell(At(row, 3)))
    /\ ~AtOrUnder(row, NormalCell(At(row, 4)))

\* C18 as stated: in the first row of the standalone report, when the reading
\* matches none of low_action, low_watch and normal, High Watch is highlighted
\* yellow if the reading is at or under its upper bound, and otherwise High
\* Action is highlighted red if the reading is at or over its bound, a Normal
\* band being on the row or not.
C18_HighBandsEvaluated ==
    (/\ SaPast(1)
     /\ Numeric(Row1)
     /\ SaParses(Row1)
     /\ SaNoLowMatch(Row1))
        => IF AtOrUnder(Row1, UpperCell(At(Row1, 5)))
           THEN SaHighlighted(1, 5, "yellow")
           ELSE AtOrOver(Row1, ScalarCell(At(Row1, 6))) => SaHighlighted(1, 6, "red")

\* C19 as stated: in the standalone report a row whose Normal, High Watch or
\* High Action cell is blank never has that cell highlighted, whatever the rows
\* before it hold: a blank cell is an absent band.
C19_BlankCellNeverHighlighted ==
    \A q \in 1..(Len(data) - 1) :
        SaPast(q) =>
            \A col \in 4..6 :
                At(At(data, q), col) = <<>> => \A i \in CellStyles(q) : table_styles[i].c0 # col

\* the nearest row before row i of the file that has a URL, 0 when there is none
PrevUrlRow(rows, i) ==
    LET before == {j \in 1..(i - 1) : rows[j].URL # ""}
    IN  IF before = {} THEN 0 ELSE CHOOSE j \in before : \A h \in before : h <= j

\* C22 as stated: in the standalone generate_report a row without a URL gets
\* the Current value of the nearest row before it that has a URL, the fetched
\* number or "No Data", and this holds wherever the row stands in the file,
\* the first row included: no row of the file stops the run.
C22_EmptyUrlRepeatsCurrent ==
    /\ loader.pc # "raised"
    /\ loader.pc \in {"rows", "pdf"} =>
          \A i \in 1..Len(loader.report) :
              (loader.rows[i].URL = "" /\ PrevUrlRow(loader.rows, i) > 0)
                  => loader.report[i].Current =
                        loader.report[PrevUrlRow(loader.rows, i)].Current

\* C21 as stated: main of the threaded generator always terminates: once
\* every river thread is over or past its join timeout, the listener is
\* stopped, the join on the log queue returns and main returns, a timed-out
\* river thread still running and logging or not.
C21_MainReturns == (main.pc = "stop") ~> (main.pc = "returned")

=============================================================================
